---- MODULE Spec2Model ----
(***************************************************************************)
(* Model of the monitoring MCP server (mcp/src): configuration loading,    *)
(* the ClickHouse health probe, the startup retry loop of main(), the      *)
(* "ping" tool and the HTTP transport in front of it; and of the resource  *)
(* naming audit script (infra/pulumi/scripts/audit-resource-names.sh).     *)
(*                                                                         *)
(* Strings whose content matters (environment values, the API key, the     *)
(* Authorization header) are sequences of one-character strings, so that   *)
(* length, prefix and case are things the model can tell apart.            *)
(***************************************************************************)
EXTENDS Integers, Sequences, FiniteSets, TLC

VARIABLES
  env,          \* process.env: CLICKHOUSE_URL, MCP_API_KEY, MCP_PORT
  config,       \* the Config main() holds (NoConfig before loadConfig returned)
  client,       \* TRUE once createClickHouseClient returned
  pc,           \* where main() is: the await it is suspended in, or "exited"
  i,            \* the loop counter of the retry loop
  healthy,      \* main()'s `healthy`
  probeCalls,   \* checkClickHouseHealth calls made by the retry loop
  probeResults, \* the booleans those calls resolved to, in order
  delays,       \* setTimeout(delayMs) suspensions completed by the retry loop
  elapsed,      \* milliseconds spent in those suspensions
  log,          \* console.log / console.error lines, in order
  exitCode,     \* process.exit status, NoExit while the process runs
  server,       \* tool names registered on the McpServer ({} before createMcpServer)
  transport,    \* HTTP listener: "none", "binding", "listening", "failed"
  store,        \* ClickHouse as the client sees it: "up", "unhealthy", "down"
  pending,      \* client.ping() round trips in flight, by who awaits them
  reqs,         \* in-flight HTTP requests, one per slot
  lastExchange, \* the most recent request that was answered (or refused), with its answer
  \* audit-resource-names.sh
  argv,         \* the script's arguments
  answer,       \* what standard input gives to the confirmation prompt
  FIX_MODE,     \* "true" / "false"
  AWS_ONLY,
  GCP_ONLY,
  TARGET_ENV,   \* "" when --env was not given
  TOTAL,
  CORRECT,
  INCORRECT,
  UNFIXABLE,
  cloud,        \* the resource names each listing command returns
  vault,        \* the secrets each secret store holds: name and value
  rn,           \* a call of rename_aws_secret / rename_gcp_secret: its arguments and locals
  ops,          \* create / delete commands issued, in order
  apc,          \* where the script is: "idle", "parse", "main", "audit", "loop", "exited"
  call,         \* index in the sequence of audit_* calls of the one being run
  lines,        \* the listed names the while loop has not read yet
  exitStatus    \* the script's exit status, NoExit while it runs

vars == <<env, config, client, pc, i, healthy, probeCalls, probeResults, delays,
          elapsed, log, exitCode, server, transport, store, pending, reqs,
          lastExchange,
          argv, answer, FIX_MODE, AWS_ONLY, GCP_ONLY, TARGET_ENV, TOTAL, CORRECT,
          INCORRECT, UNFIXABLE, cloud, vault, rn, ops, apc, call, lines, exitStatus>>

auditVars == <<argv, answer, FIX_MODE, AWS_ONLY, GCP_ONLY, TARGET_ENV, TOTAL, CORRECT,
               INCORRECT, UNFIXABLE, cloud, vault, rn, ops, apc, call, lines, exitStatus>>

mainVars == <<env, config, client, pc, i, healthy, probeCalls, probeResults,
              delays, elapsed, log, exitCode, server, transport>>

serverVars == <<mainVars, store, pending, reqs, lastExchange>>

---------------------------------------------------------------------------
(* Bounds of the model *)

MaxRequests == 2   \* HTTP requests that can be in flight together

(* Program constants *)

maxAttempts == 30
delayMs == 2000
DefaultPort == 3001
NoExit == 0 - 1      \* exitCode while the process has not exited

Slots == 1..MaxRequests

---------------------------------------------------------------------------
(* Strings *)

Undefined == <<"undefined">>   \* JavaScript's undefined, distinct from every string

Digits == {"0", "1", "2", "3", "4", "5", "6", "7", "8", "9"}
Alpha == {"a", "b", "c", "d", "e", "f", "g", "h", "i", "j", "k", "l", "m", "n",
          "o", "p", "q", "r", "s", "t", "u", "v", "w", "x", "y", "z",
          "K", "E", "Y"}

DigitVal(c) ==
  CASE c = "0" -> 0 [] c = "1" -> 1 [] c = "2" -> 2 [] c = "3" -> 3
    [] c = "4" -> 4 [] c = "5" -> 5 [] c = "6" -> 6 [] c = "7" -> 7
    [] c = "8" -> 8 [] c = "9" -> 9

RECURSIVE Decimal(_)
Decimal(s) ==
  IF s = <<>> THEN 0
  ELSE 10 * Decimal(SubSeq(s, 1, Len(s) - 1)) + DigitVal(s[Len(s)])

DefaultUrl == <<"h", "t", "t", "p", ":", "/", "/", "l", "o", "c", "a", "l",
                "h", "o", "s", "t", ":", "8", "1", "2", "3">>

---------------------------------------------------------------------------
(* config.ts *)

NoConfig == [clickhouseUrl |-> Undefined, mcpApiKey |-> Undefined, mcpPort |-> 0]

\* `process.env.X || undefined`: an unset or empty variable reads as undefined
OrUndefined(v) == IF v = Undefined \/ v = <<>> THEN Undefined ELSE v

\* z.string().url(): the text parses as an absolute URL, i.e. it starts with
\* a scheme (a letter, then letters or digits) followed by ":"
isUrl(s) ==
  \E k \in 2..Len(s) :
    /\ s[k] = ":"
    /\ s[1] \in Alpha
    /\ \A j \in 1..(k - 1) : s[j] \in Alpha \cup Digits

\* z.coerce.number().int(): Number(text) of a run of digits, optionally signed;
\* any other text is NaN or not an integer, which .int() rejects alike
coerceInt(s) ==
  LET neg == Len(s) >= 1 /\ s[1] = "-"
      body == IF neg THEN SubSeq(s, 2, Len(s)) ELSE s
  IN IF body # <<>> /\ \A j \in 1..Len(body) : body[j] \in Digits
       THEN [isInt |-> TRUE, n |-> IF neg THEN 0 - Decimal(body) ELSE Decimal(body)]
       ELSE [isInt |-> FALSE, n |-> 0]

\* loadConfig with mcpApiKey declared z.string(), without .min(1)
loadConfigNoMin(e) ==
  LET url == OrUndefined(e.CLICKHOUSE_URL)
      key == e.MCP_API_KEY
      port == OrUndefined(e.MCP_PORT)
      num == IF port = Undefined THEN [isInt |-> TRUE, n |-> DefaultPort]
                                 ELSE coerceInt(port)
  IN IF (url = Undefined \/ isUrl(url)) /\ key # Undefined /\ num.isInt /\ num.n > 0
       THEN [threw |-> FALSE,
             value |-> [clickhouseUrl |-> IF url = Undefined THEN DefaultUrl ELSE url,
                        mcpApiKey |-> key,
                        mcpPort |-> num.n]]
       ELSE [threw |-> TRUE, value |-> NoConfig]

\* configSchema.parse of the three environment values
loadConfig(e) ==
  LET url == OrUndefined(e.CLICKHOUSE_URL)
      key == e.MCP_API_KEY
      port == OrUndefined(e.MCP_PORT)
      num == IF port = Undefined THEN [isInt |-> TRUE, n |-> DefaultPort]
                                 ELSE coerceInt(port)
      urlOk == url = Undefined \/ isUrl(url)
      keyOk == key # Undefined /\ Len(key) >= 1
      portOk == num.isInt /\ num.n > 0
  IN IF urlOk /\ keyOk /\ portOk
       THEN [threw |-> FALSE,
             value |-> [clickhouseUrl |-> IF url = Undefined THEN DefaultUrl ELSE url,
                        mcpApiKey |-> key,
                        mcpPort |-> num.n]]
       ELSE [threw |-> TRUE, value |-> NoConfig]

---------------------------------------------------------------------------
(* clickhouse.ts *)

StoreStates == {"up", "unhealthy", "down"}

\* What client.ping() settles to, given the backing store's condition when the
\* round trip completes: resolved {success: true}, resolved {success: false},
\* or rejected.
clientPing(st) ==
  CASE st = "up" -> [kind |-> "resolve", success |-> TRUE]
    [] st = "unhealthy" -> [kind |-> "resolve", success |-> FALSE]
    [] st = "down" -> [kind |-> "reject", success |-> FALSE]

\* checkClickHouseHealth without its catch clause
checkClickHouseHealthNoCatch(o) ==
  IF o.kind = "reject" THEN [threw |-> TRUE, value |-> FALSE]
                       ELSE [threw |-> FALSE, value |-> o.success]

\* try { return (await client.ping()).success } catch { return false }
checkClickHouseHealth(o) ==
  LET try == IF o.kind = "reject" THEN [threw |-> TRUE, value |-> FALSE]
                                  ELSE [threw |-> FALSE, value |-> o.success]
  IN IF try.threw THEN [threw |-> FALSE, value |-> FALSE] ELSE try

---------------------------------------------------------------------------
(* tools/ping.ts *)

NoResult == [status |-> "none", clickhouse |-> FALSE, timestamp |-> ""]

\* new Date(ms).toISOString(): the instant as text
toISOString(ms) == ToString(ms)

\* ping with the status not derived from the probe's answer
pingStatusOk(o, now) ==
  LET c == checkClickHouseHealth(o)
  IN [threw |-> FALSE,
      value |-> [status |-> "ok", clickhouse |-> c.value, timestamp |-> toISOString(now)]]

\* ping answering from the last successful ping instead of probing again
pingCached(o, now) ==
  LET c == IF lastExchange.dispatched /\ lastExchange.result.clickhouse
             THEN [threw |-> FALSE, value |-> TRUE]
             ELSE checkClickHouseHealth(o)
  IN IF c.threw
       THEN [threw |-> TRUE, value |-> NoResult]
       ELSE [threw |-> FALSE,
             value |-> [status |-> IF c.value THEN "ok" ELSE "error",
                        clickhouse |-> c.value,
                        timestamp |-> toISOString(now)]]

\* ping(client), given what client.ping() settled to and the clock at that moment
ping(o, now) ==
  LET c == checkClickHouseHealth(o)
  IN IF c.threw
       THEN [threw |-> TRUE, value |-> NoResult]
       ELSE [threw |-> FALSE,
             value |-> [status |-> IF c.value THEN "ok" ELSE "error",
                        clickhouse |-> c.value,
                        timestamp |-> toISOString(now)]]

---------------------------------------------------------------------------
(* server.ts *)

\* createMcpServer: the registry holds exactly the tool "ping"
createMcpServer == {"ping"}

---------------------------------------------------------------------------
(* index.ts: main() *)

\* the clock, in milliseconds since main() started: the time spent in retry delays
Now == elapsed

\* who awaits a client.ping() round trip: the retry loop, or the request in slot n
Gate == <<"gate", 0>>
Req(n) == <<"request", n>>

Line(stream, text, args) == [stream |-> stream, text |-> text, args |-> args]

\* main().catch ending the process with process.exit(0)
FatalExitZero(lg) ==
  /\ log' = Append(lg, Line("error", "Fatal error:", <<>>))
  /\ exitCode' = 0
  /\ pc' = "exited"

\* main().catch: console.error("Fatal error:", err); process.exit(1)
Fatal(lg) ==
  /\ log' = Append(lg, Line("error", "Fatal error:", <<>>))
  /\ exitCode' = 1
  /\ pc' = "exited"

\* line 29 never taking the exit branch
notHealthyIgnored(h) == FALSE

\* line 29: `if (!healthy)`
notHealthy(h) == ~h

\* Lines 29-38 with the console.error of lines 30-32 left out
AfterLoopSilent(h, lg) ==
  IF notHealthy(h)
    THEN /\ log' = lg
         /\ exitCode' = 1
         /\ pc' = "exited"
         /\ UNCHANGED <<server, transport>>
    ELSE /\ server' = createMcpServer
         /\ transport' = "binding"
         /\ pc' = "binding"
         /\ log' = lg
         /\ UNCHANGED exitCode

\* Lines 29-38, run once the loop is left: exit(1) when not healthy, otherwise
\* createMcpServer and the call of startHttpServer, which main() then awaits.
AfterLoop(h, lg) ==
  IF notHealthy(h)
    THEN /\ log' = Append(lg, Line("error", "ClickHouse not reachable after {} attempts, exiting",
                                   <<maxAttempts>>))
         /\ exitCode' = 1
         /\ pc' = "exited"
         /\ UNCHANGED <<server, transport>>
    ELSE /\ server' = createMcpServer
         /\ transport' = "binding"
         /\ pc' = "binding"
         /\ log' = lg
         /\ UNCHANGED exitCode

\* Line 15 as `for (let i = 1; ; i++)`: no test of i against maxAttempts
IterationUnbounded(n, h, lg, pend) ==
  /\ i' = n
  /\ probeCalls' = probeCalls + 1
  /\ pending' = pend \cup {Gate}
  /\ pc' = "probe"
  /\ log' = lg
  /\ UNCHANGED <<exitCode, server, transport>>

\* Line 15 with the counter at n: the loop test, then line 16's call of
\* checkClickHouseHealth, whose client.ping() is issued before main() suspends.
Iteration(n, h, lg, pend) ==
  /\ i' = n
  /\ IF n <= maxAttempts
       THEN /\ probeCalls' = probeCalls + 1
            /\ pending' = pend \cup {Gate}
            /\ pc' = "probe"
            /\ log' = lg
            /\ UNCHANGED <<exitCode, server, transport>>
       ELSE /\ pending' = pend
            /\ UNCHANGED probeCalls
            /\ AfterLoop(h, lg)

\* LoopStep without the break of line 19
LoopStepNoBreak(h, n) ==
  IF n < maxAttempts THEN "delay"
  ELSE "next"

\* LoopStep with line 21 testing i <= maxAttempts
LoopStepDelayAfterLast(h, n) ==
  IF h THEN "break"
  ELSE IF n <= maxAttempts THEN "delay"
  ELSE "next"

\* LoopStep without the setTimeout of line 25
LoopStepNoDelay(h, n) ==
  IF h THEN "break"
  ELSE "next"

\* Lines 17-26: what the loop body does with the probe's answer at attempt n
LoopStep(h, n) ==
  IF h THEN "break"
  ELSE IF n < maxAttempts THEN "delay"
  ELSE "next"

\* Line 7 with loadConfig's failure caught and main() going on
LoadConfigContinues ==
  /\ pc = "loadConfig"
  /\ LET r == loadConfig(env)
     IN /\ config' = r.value
        /\ pc' = "createClient"
        /\ UNCHANGED <<log, exitCode>>
  /\ UNCHANGED <<auditVars, env, client, i, healthy, probeCalls, probeResults, delays, elapsed,
                 server, transport, store, pending, reqs, lastExchange>>

\* line 7
LoadConfig ==
  /\ pc = "loadConfig"
  /\ LET r == loadConfig(env)
     IN IF r.threw
          THEN /\ Fatal(log)
               /\ UNCHANGED config
          ELSE /\ config' = r.value
               /\ pc' = "createClient"
               /\ UNCHANGED <<log, exitCode>>
  /\ UNCHANGED <<auditVars, env, client, i, healthy, probeCalls, probeResults, delays, elapsed,
                 server, transport, store, pending, reqs, lastExchange>>

\* Lines 8-16: the client is constructed, the loop starts at i = 1 and the
\* first probe is issued
CreateClient ==
  /\ pc = "createClient"
  /\ client' = TRUE
  /\ healthy' = FALSE
  /\ Iteration(1, FALSE, log, pending)
  /\ UNCHANGED <<auditVars, env, config, probeResults, delays, elapsed, store, reqs,
                 lastExchange>>

\* line 8, createClient throwing on the configured URL
CreateClientThrows ==
  /\ pc = "createClient"
  /\ Fatal(log)
  /\ UNCHANGED <<auditVars, env, config, client, i, healthy, probeCalls, probeResults, delays,
                 elapsed, server, transport, store, pending, reqs, lastExchange>>

\* Line 16 resuming, with the console.log of lines 22-24 left out
GateProbeResolveQuiet ==
  /\ pc = "probe"
  /\ Gate \in pending
  /\ LET r == checkClickHouseHealth(clientPing(store))
         rest == pending \ {Gate}
     IN IF r.threw
          THEN /\ Fatal(log)
               /\ pending' = rest
               /\ UNCHANGED <<i, healthy, probeCalls, probeResults, server, transport>>
          ELSE /\ healthy' = r.value
               /\ probeResults' = Append(probeResults, r.value)
               /\ CASE LoopStep(r.value, i) = "break" ->
                         /\ AfterLoop(r.value,
                                      Append(log, Line("log", "ClickHouse healthy after {} attempt(s)",
                                                       <<i>>)))
                         /\ pending' = rest
                         /\ UNCHANGED <<i, probeCalls>>
                    [] LoopStep(r.value, i) = "delay" ->
                         /\ log' = log
                         /\ pc' = "delay"
                         /\ pending' = rest
                         /\ UNCHANGED <<i, probeCalls, exitCode, server, transport>>
                    [] LoopStep(r.value, i) = "next" ->
                         Iteration(i + 1, r.value, log, rest)
  /\ UNCHANGED <<auditVars, env, config, client, delays, elapsed, store, reqs, lastExchange>>

\* Line 16 resuming: the probe of attempt i has settled
GateProbeResolve ==
  /\ pc = "probe"
  /\ Gate \in pending
  /\ LET r == checkClickHouseHealth(clientPing(store))
         rest == pending \ {Gate}
     IN IF r.threw
          THEN /\ Fatal(log)
               /\ pending' = rest
               /\ UNCHANGED <<i, healthy, probeCalls, probeResults, server, transport>>
          ELSE /\ healthy' = r.value
               /\ probeResults' = Append(probeResults, r.value)
               /\ CASE LoopStep(r.value, i) = "break" ->
                         /\ AfterLoop(r.value,
                                      Append(log, Line("log", "ClickHouse healthy after {} attempt(s)",
                                                       <<i>>)))
                         /\ pending' = rest
                         /\ UNCHANGED <<i, probeCalls>>
                    [] LoopStep(r.value, i) = "delay" ->
                         /\ log' = Append(log, Line("log",
                                 "ClickHouse not ready (attempt {}/{}), retrying in {}ms...",
                                 <<i, maxAttempts, delayMs>>))
                         /\ pc' = "delay"
                         /\ pending' = rest
                         /\ UNCHANGED <<i, probeCalls, exitCode, server, transport>>
                    [] LoopStep(r.value, i) = "next" ->
                         Iteration(i + 1, r.value, log, rest)
  /\ UNCHANGED <<auditVars, env, config, client, delays, elapsed, store, reqs, lastExchange>>

\* Line 25 resuming: the timer fired; the loop goes on with i + 1
GateDelayElapsed ==
  /\ pc = "delay"
  /\ delays' = delays + 1
  /\ elapsed' = elapsed + delayMs
  /\ Iteration(i + 1, healthy, log, pending)
  /\ UNCHANGED <<auditVars, env, config, client, healthy, probeResults, store, reqs,
                 lastExchange>>

---------------------------------------------------------------------------
(* server.ts: the "ping" tool *)

\* JSON.stringify(result, null, 2): the object's members as text, in order
JSONstringify(r) ==
  << <<"status", r.status>>,
     <<"clickhouse", IF r.clickhouse THEN "true" ELSE "false">>,
     <<"timestamp", r.timestamp>> >>

\* the handler answering "ok" without awaiting the probe's answer
pingToolStale(o, now) ==
  LET r == ping([kind |-> "resolve", success |-> TRUE], now)
  IN [threw |-> FALSE, result |-> r.value,
      content |-> <<[type |-> "text", text |-> JSONstringify(r.value)]>>]

\* The handler registered for "ping" (lines 11-16): await ping(clickhouse),
\* then wrap the serialized result as one text content item.
pingTool(o, now) ==
  LET r == ping(o, now)
  IN IF r.threw
       THEN [threw |-> TRUE, result |-> NoResult, content |-> <<>>]
       ELSE [threw |-> FALSE, result |-> r.value,
             content |-> <<[type |-> "text", text |-> JSONstringify(r.value)]>>]

---------------------------------------------------------------------------
(* transport.ts: startHttpServer and its request handler *)

Bearer == <<"B", "e", "a", "r", "e", "r", " ">>

\* The requests clients send: the liveness path, and the protocol path with
\* no header, with the bearer token right, cut short, extended, in another
\* case, or different, and with the key sent without the "Bearer " scheme.
Tokens == {<<"k", "e", "y">>, <<"k", "e">>, <<"k", "e", "y", "s">>,
           <<"K", "E", "Y">>, <<"b", "a", "d">>}

Request(method, path, authorization, body) ==
  [method |-> method, path |-> path, authorization |-> authorization, body |-> body]

Requests ==
  {Request("GET", "/health", a, "none") : a \in {Undefined, Bearer \o <<"b", "a", "d">>}}
    \cup {Request("POST", "/mcp", Undefined, b) : b \in {"ping", "empty"}}
    \cup {Request("POST", "/mcp", Bearer \o t, "ping") : t \in Tokens}
    \cup {Request("POST", "/mcp", Bearer \o t, "empty") : t \in {<<"k", "e", "y">>}}
    \cup {Request("POST", "/mcp", <<"k", "e", "y">>, "ping")}

NoRequest == Request("none", "none", Undefined, "none")
Idle == [state |-> "idle", req |-> NoRequest]

\* every path treated as the protocol path
routeAllProtocol(rq) == "protocol"

\* the two logical endpoints
route(rq) == IF rq.path = "/health" THEN "liveness" ELSE "protocol"

IsPrefix(p, q) == Len(p) <= Len(q) /\ SubSeq(q, 1, Len(p)) = p

Lower(c) == CASE c = "K" -> "k" [] c = "E" -> "e" [] c = "Y" -> "y" [] OTHER -> c
LowerCase(q) == [j \in 1..Len(q) |-> Lower(q[j])]

\* authorize letting a request without the header through
authorizeMissingOk(header, key) ==
  IF header = Undefined THEN "equal"
  ELSE IF header = Bearer \o key THEN "equal"
  ELSE "unequal"

\* authorize comparing without regard to letter case
authorizeIgnoreCase(header, key) ==
  IF header = Undefined THEN "missing"
  ELSE IF LowerCase(header) = LowerCase(Bearer \o key) THEN "equal"
  ELSE "unequal"

\* authorize accepting any header that starts with the expected value
authorizePrefix(header, key) ==
  IF header = Undefined THEN "missing"
  ELSE IF IsPrefix(Bearer \o key, header) THEN "equal"
  ELSE "unequal"

\* the Authorization header against the configured secret
authorize(header, key) ==
  IF header = Undefined THEN "missing"
  ELSE IF header = Bearer \o key THEN "equal"
  ELSE "unequal"

Exchange(rq, status, json, content, auth, dispatched, probes, outcome, result) ==
  [req |-> rq, status |-> status, json |-> json, content |-> content, auth |-> auth,
   dispatched |-> dispatched, probes |-> probes, outcome |-> outcome, result |-> result]

NoExchange == Exchange(NoRequest, 0 - 1, <<>>, <<>>, "none", FALSE, 0, "none", NoResult)

\* A connection attempt while no listener is bound: the program runs no code
ConnectionRefused(rq) ==
  /\ transport # "listening"
  /\ lastExchange' = Exchange(rq, 0, <<>>, <<>>, "none", FALSE, 0, "none", NoResult)
  /\ UNCHANGED <<auditVars, mainVars, store, pending, reqs>>

\* the slot an admitted request takes: the first one free
FreeSlot(s) == reqs[s].state = "idle" /\ \A t \in Slots : t < s => reqs[t].state # "idle"

\* The request handler with the liveness path answered only when no
\* client.ping() is outstanding
HandleRequestWaits(rq) ==
  /\ transport = "listening"
  /\ LET a == authorize(rq.authorization, config.mcpApiKey)
     IN CASE route(rq) = "liveness" ->
               /\ pending = {}
               /\ lastExchange' = Exchange(rq, 200, << <<"status", "ok">> >>, <<>>,
                                           "none", FALSE, 0, "none", NoResult)
               /\ UNCHANGED reqs
          [] route(rq) = "protocol" /\ a = "equal" ->
               /\ \E s \in Slots :
                    /\ FreeSlot(s)
                    /\ reqs' = [reqs EXCEPT ![s] = [state |-> "authorized", req |-> rq]]
               /\ UNCHANGED lastExchange
          [] route(rq) = "protocol" /\ a # "equal" ->
               /\ lastExchange' = Exchange(rq, 401, <<>>, <<>>, a, FALSE, 0, "none", NoResult)
               /\ UNCHANGED reqs
  /\ UNCHANGED <<auditVars, mainVars, store, pending>>

\* The listener's request handler, up to the point where an authorized
\* protocol request waits to be dispatched
HandleRequest(rq) ==
  /\ transport = "listening"
  /\ LET a == authorize(rq.authorization, config.mcpApiKey)
     IN CASE route(rq) = "liveness" ->
               /\ lastExchange' = Exchange(rq, 200, << <<"status", "ok">> >>, <<>>,
                                           "none", FALSE, 0, "none", NoResult)
               /\ UNCHANGED reqs
          [] route(rq) = "protocol" /\ a = "equal" ->
               /\ \E s \in Slots :
                    /\ FreeSlot(s)
                    /\ reqs' = [reqs EXCEPT ![s] = [state |-> "authorized", req |-> rq]]
               /\ UNCHANGED lastExchange
          [] route(rq) = "protocol" /\ a # "equal" ->
               /\ lastExchange' = Exchange(rq, 401, <<>>, <<>>, a, FALSE, 0, "none", NoResult)
               /\ UNCHANGED reqs
  /\ UNCHANGED <<auditVars, mainVars, store, pending>>

\* The protocol layer takes the authorized request: a call of a registered tool
\* invokes its handler, whose ping issues client.ping(); anything else is
\* answered as a protocol error without reaching a tool.
Dispatch(s) ==
  /\ reqs[s].state = "authorized"
  /\ IF reqs[s].req.body = "ping" /\ "ping" \in server
       THEN /\ reqs' = [reqs EXCEPT ![s].state = "probing"]
            /\ pending' = pending \cup {Req(s)}
            /\ UNCHANGED lastExchange
       ELSE /\ reqs' = [reqs EXCEPT ![s] = Idle]
            /\ lastExchange' = Exchange(reqs[s].req, 400, <<>>, <<>>, "equal", FALSE, 0,
                                        "none", NoResult)
            /\ UNCHANGED pending
  /\ UNCHANGED <<auditVars, mainVars, store>>

\* every in-flight ping awaiting one shared client.ping(): when it settles, all
\* of them return with its answer
ToolResolveShared(s) ==
  /\ reqs[s].state = "probing"
  /\ Req(s) \in pending
  /\ LET o == clientPing(store)
         t == pingTool(o, Now)
     IN lastExchange' = Exchange(reqs[s].req, 200, <<>>, t.content, "equal", TRUE, 1,
                                 IF o.kind = "reject" THEN "reject"
                                 ELSE IF o.success THEN "success" ELSE "failure",
                                 t.result)
  /\ reqs' = [t \in Slots |-> IF reqs[t].state = "probing" THEN Idle ELSE reqs[t]]
  /\ pending' = pending \ {Req(t) : t \in Slots}
  /\ UNCHANGED <<auditVars, mainVars, store>>

\* client.ping() of the request in slot s settles; the handler returns and the
\* response is written
ToolResolve(s) ==
  /\ reqs[s].state = "probing"
  /\ Req(s) \in pending
  /\ LET o == clientPing(store)
         t == pingTool(o, Now)
     IN lastExchange' = Exchange(reqs[s].req, 200, <<>>, t.content, "equal", TRUE, 1,
                                 IF o.kind = "reject" THEN "reject"
                                 ELSE IF o.success THEN "success" ELSE "failure",
                                 t.result)
  /\ reqs' = [reqs EXCEPT ![s] = Idle]
  /\ pending' = pending \ {Req(s)}
  /\ UNCHANGED <<auditVars, mainVars, store>>

\* startHttpServer resolves: the port is bound (lines 37-38)
BindListening ==
  /\ pc = "binding"
  /\ transport' = "listening"
  /\ log' = Append(log, Line("log", "MCP server listening on port {}", <<config.mcpPort>>))
  /\ pc' = "serving"
  /\ UNCHANGED <<auditVars, env, config, client, i, healthy, probeCalls, probeResults, delays,
                 elapsed, exitCode, server, store, pending, reqs, lastExchange>>

\* startHttpServer rejects: the port cannot be bound
BindFails ==
  /\ pc = "binding"
  /\ transport' = "failed"
  /\ Fatal(log)
  /\ UNCHANGED <<auditVars, env, config, client, i, healthy, probeCalls, probeResults, delays,
                 elapsed, server, store, pending, reqs, lastExchange>>

---------------------------------------------------------------------------
(* audit-resource-names.sh *)

MaxResources == 2   \* names one listing command returns at most

\* the project name read from standards.toml (lines 30-39)
PROJECT == "monitoring"

\* A resource name is the sequence of the words its hyphens separate:
\* "monitoring-api-secret-dev" is <<"monitoring", "api", "secret", "dev">>.
\* The words are lower-case and not empty, and none has the project, a
\* component or an environment as a proper part, so that the script's text
\* patterns match exactly where whole words match.
Last(name) == name[Len(name)]

Contains(names, n) == \E k \in DOMAIN names : names[k] = n

GCP_PROJECTS == << <<"christopher", "little", "dev">>,
                   <<"christopher", "little", "stag">>,
                   <<"christopher", "little", "prod">> >>

AwsFns == <<"audit_aws_secrets", "audit_aws_ecs", "audit_aws_rds", "audit_aws_elasticache">>
GcpFns == <<"audit_gcp_secrets", "audit_gcp_cloud_run">>

\* the component each audit_* function passes to check_name
Component(fn) ==
  CASE fn \in {"audit_aws_secrets", "audit_gcp_secrets"} -> "secret"
    [] fn \in {"audit_aws_ecs", "audit_gcp_cloud_run"} -> "container"
    [] fn = "audit_aws_rds" -> "database"
    [] fn = "audit_aws_elasticache" -> "redis"

\* the audit_* functions whose loop can call a rename function
Renames(fn) == fn \in {"audit_aws_secrets", "audit_gcp_secrets"}

\* One call of an audit_* function: for AWS `scope` is the profile, which is the
\* environment; for GCP it is the environment the project name ends with.
Call(fn, scope) == [fn |-> fn, scope |-> scope]

\* Exit status of ((X++)) with X = v: an arithmetic command fails when its
\* expression, here the value before the increment, is 0.
ArithStatus(v) == IF v = 0 THEN 1 ELSE 0

\* check_name: ^${PROJECT}-[a-z0-9-]+-${component}-${env}$
check_name(current, component, e) ==
  /\ Len(current) >= 4
  /\ current[1] = PROJECT
  /\ current[Len(current) - 1] = component
  /\ Last(current) = e

\* ${name//-w/}: every occurrence of the word w after a hyphen goes
Without(name, w) ==
  IF name = <<>> THEN <<>>
  ELSE <<name[1]>> \o SelectSeq(Tail(name), LAMBDA x : x # w)

\* ${name//w-/}: every occurrence of the word w before a hyphen goes
WithoutLeading(name, w) ==
  IF name = <<>> THEN <<>>
  ELSE SelectSeq(SubSeq(name, 1, Len(name) - 1), LAMBDA x : x # w) \o <<Last(name)>>

\* extract_logical_name: the first pattern that matches, then the clean-up of
\* lines 138-146 in order (the -redis-redis step changes nothing the -redis
\* step after it would not remove)
extract_logical_name(current, component, e) ==
  LET n0 == IF check_name(current, component, e)
              THEN SubSeq(current, 2, Len(current) - 2)
            ELSE IF Len(current) >= 2 /\ Last(current) = e
              THEN SubSeq(current, 1, Len(current) - 1)
            ELSE IF Len(current) >= 2 /\ current[1] = e
              THEN Tail(current)
            ELSE current
      n1 == Without(n0, "secret")
      n2 == Without(n1, "database")
      n3 == Without(n2, "container")
      n4 == Without(n3, "redis")
      n5 == Without(n4, "instance")
      n6 == Without(n5, e)
      n7 == WithoutLeading(n6, e)
  IN WithoutLeading(n7, PROJECT)

\* expected_secret_name, expected_database_name, expected_container_name,
\* expected_redis_name: ${PROJECT}-${name}-<component>-${env}
expected_name(name, component, e) == <<PROJECT>> \o name \o <<component, e>>

\* The while/case loop of lines 72-81 over the arguments left. `--env` as the
\* last argument reads $2 unset, which `set -u` ends with status 1; -h, --help
\* and an unknown option print the usage and exit 0.
RECURSIVE ParseArgs(_, _)
ParseArgs(args, f) ==
  IF args = <<>> THEN f
  ELSE CASE args[1] = "--fix" -> ParseArgs(Tail(args), [f EXCEPT !.fix = "true"])
         [] args[1] = "--aws-only" -> ParseArgs(Tail(args), [f EXCEPT !.aws = "true"])
         [] args[1] = "--gcp-only" -> ParseArgs(Tail(args), [f EXCEPT !.gcp = "true"])
         [] args[1] = "--env" ->
              IF Len(args) < 2 THEN [f EXCEPT !.exit = 1]
              ELSE ParseArgs(SubSeq(args, 3, Len(args)), [f EXCEPT !.target = args[2]])
         [] OTHER -> [f EXCEPT !.exit = 0]

RECURSIVE Flatten(_)
Flatten(ss) == IF ss = <<>> THEN <<>> ELSE Head(ss) \o Flatten(Tail(ss))

\* Lines 454-481: the audit_* calls the script makes, in order
Calls(gcpOnly, awsOnly, target) ==
  LET ENVS == IF target # "" THEN <<target>> ELSE <<"dev", "stag">>
      aws == IF gcpOnly # "true"
               THEN Flatten([k \in DOMAIN ENVS |->
                              [j \in DOMAIN AwsFns |-> Call(AwsFns[j], ENVS[k])]])
               ELSE <<>>
      projects == SelectSeq(GCP_PROJECTS, LAMBDA p : ~(target # "" /\ Last(p) # target))
      gcp == IF awsOnly # "true"
               THEN Flatten([k \in DOMAIN projects |->
                              [j \in DOMAIN GcpFns |-> Call(GcpFns[j], Last(projects[k]))]])
               ELSE <<>>
  IN aws \o gcp

Plan == Calls(GCP_ONLY, AWS_ONLY, TARGET_ENV)

\* the test of lines 189 and 362 taking the rename branch whatever FIX_MODE is
FixRequestedAlways(mode) == TRUE

\* lines 189 and 362: [[ "$FIX_MODE" == "true" ]]
FixRequested(mode) == mode = "true"

\* $(command): the command's output without its trailing newlines
RECURSIVE CommandSubstitution(_)
CommandSubstitution(out) ==
  IF out # <<>> /\ Last(out) = "\n"
    THEN CommandSubstitution(SubSeq(out, 1, Len(out) - 1))
    ELSE out

\* echo -n "$v": v, unless v reads as options of echo (a hyphen and then only
\* n, e, E), which echo takes as options and writes nothing
EchoN(v) ==
  IF Len(v) >= 2 /\ v[1] = "-" /\ \A k \in 2..Len(v) : v[k] \in {"n", "e", "E"}
    THEN <<>>
    ELSE v

Secret(name, value) == [name |-> name, value |-> value]

\* the store `key` holds a secret of that name
Exists(vlt, key, name) == \E x \in vlt[key] : x.name = name

ValueOf(vlt, key, name) == (CHOOSE x \in vlt[key] : x.name = name).value

\* $(... get-secret-value ...) / $(gcloud secrets versions access latest ...):
\* what secret_value is set to, when the command succeeds
ReadSecret(c, key, old, getOk) ==
  IF getOk /\ Exists(c.vault, key, old)
    THEN [ok |-> TRUE, value |-> CommandSubstitution(ValueOf(c.vault, key, old))]
    ELSE [ok |-> FALSE, value |-> <<>>]

\* create-secret / secrets create of `new` with `value`; it fails when the name
\* is taken, or for a reason of the cloud's (createOk false)
CreateSecret(c, key, old, new, value, createOk) ==
  LET created == createOk /\ ~Exists(c.vault, key, new)
  IN [c EXCEPT !.ops = Append(@, [op |-> "create", at |-> key, name |-> new,
                                  from |-> old, ok |-> created]),
               !.cloud[key] = IF created THEN Append(@, new) ELSE @,
               !.vault[key] = IF created THEN @ \cup {Secret(new, value)} ELSE @,
               !.status = IF created THEN 0 ELSE 1]

\* delete-secret --force-delete-without-recovery / secrets delete --quiet; a
\* failure is warned about and the function goes on
DeleteSecret(c, key, old, deleteOk) ==
  [c EXCEPT !.ops = Append(@, [op |-> "delete", at |-> key, name |-> old,
                               from |-> old, ok |-> deleteOk]),
            !.cloud[key] = IF deleteOk THEN SelectSeq(@, LAMBDA x : x # old) ELSE @,
            !.vault[key] = IF deleteOk THEN {x \in @ : x.name # old} ELSE @,
            !.status = 0]

\* what the create command is given for the value read: --secret-string
\* "$secret_value" in rename_aws_secret, echo -n "$secret_value" | ... in
\* rename_gcp_secret
Passed(fn, value) == IF fn = "rename_gcp_secret" THEN EchoN(value) ELSE value

\* rename_aws_secret (lines 196-231): read the value, create the new secret,
\* delete the old one. A failed read or create returns 1; a failed delete is
\* only warned about.
rename_aws_secret(c, key, old, new, getOk, createOk, deleteOk) ==
  LET r == ReadSecret(c, key, old, getOk)
  IN IF ~r.ok THEN [c EXCEPT !.status = 1]
     ELSE LET c1 == CreateSecret(c, key, old, new, Passed("rename_aws_secret", r.value),
                                 createOk)
          IN IF c1.status # 0 THEN c1
             ELSE DeleteSecret(c1, key, old, deleteOk)

\* rename_gcp_secret (lines 369-400): the same three steps with gcloud
rename_gcp_secret(c, key, old, new, getOk, createOk, deleteOk) ==
  LET r == ReadSecret(c, key, old, getOk)
  IN IF ~r.ok THEN [c EXCEPT !.status = 1]
     ELSE LET c1 == CreateSecret(c, key, old, new, Passed("rename_gcp_secret", r.value),
                                 createOk)
          IN IF c1.status # 0 THEN c1
             ELSE DeleteSecret(c1, key, old, deleteOk)

\* The body of the while loop of an audit_* function for one listed name, under
\* `set -e`: each command in turn, stopping at the first whose status is not 0.
\* c holds the counters, the cloud, the commands issued and the status.
LoopBody(c, key, name, fix, getOk, createOk, deleteOk) ==
  LET component == Component(key.fn)
      c1 == [c EXCEPT !.TOTAL = @ + 1, !.status = ArithStatus(c.TOTAL)]
  IN IF c1.status # 0 THEN c1
     ELSE IF check_name(name, component, key.scope)
       THEN [c1 EXCEPT !.CORRECT = @ + 1, !.status = ArithStatus(c.CORRECT)]
     ELSE IF Renames(key.fn)
       THEN LET expected == expected_name(extract_logical_name(name, component, key.scope),
                                          component, key.scope)
                c2 == [c1 EXCEPT !.INCORRECT = @ + 1, !.status = ArithStatus(c.INCORRECT)]
            IN IF c2.status # 0 THEN c2
               ELSE IF ~FixRequested(fix) THEN c2
               ELSE IF key.fn = "audit_aws_secrets"
                 THEN rename_aws_secret(c2, key, name, expected, getOk, createOk, deleteOk)
                 ELSE rename_gcp_secret(c2, key, name, expected, getOk, createOk, deleteOk)
     ELSE [c1 EXCEPT !.UNFIXABLE = @ + 1, !.status = ArithStatus(c.UNFIXABLE)]

\* the script's counters, cloud and issued commands as LoopBody takes them
Counters == [TOTAL |-> TOTAL, CORRECT |-> CORRECT, INCORRECT |-> INCORRECT,
             UNFIXABLE |-> UNFIXABLE, cloud |-> cloud, vault |-> vault, ops |-> ops,
             status |-> 0]

\* Lines 72-81
ParseArguments ==
  /\ apc = "parse"
  /\ LET f == ParseArgs(argv, [fix |-> FIX_MODE, aws |-> AWS_ONLY, gcp |-> GCP_ONLY,
                               target |-> TARGET_ENV, exit |-> NoExit])
     IN /\ FIX_MODE' = f.fix
        /\ AWS_ONLY' = f.aws
        /\ GCP_ONLY' = f.gcp
        /\ TARGET_ENV' = f.target
        /\ IF f.exit # NoExit
             THEN apc' = "exited" /\ exitStatus' = f.exit
             ELSE apc' = "main" /\ UNCHANGED exitStatus
  /\ UNCHANGED <<serverVars, argv, answer, TOTAL, CORRECT, INCORRECT, UNFIXABLE, cloud,
                 vault, rn, ops, call, lines>>

\* Lines 438-452: the banner, and in fix mode the confirmation prompt. `read`
\* fails at end of input, which `set -e` ends with status 1; any answer but
\* "yes" exits 0.
AskConfirmation ==
  /\ apc = "main"
  /\ IF FIX_MODE = "true" /\ answer = "eof"
       THEN apc' = "exited" /\ exitStatus' = 1 /\ UNCHANGED call
     ELSE IF FIX_MODE = "true" /\ answer # "yes"
       THEN apc' = "exited" /\ exitStatus' = 0 /\ UNCHANGED call
     ELSE apc' = "audit" /\ call' = 1 /\ UNCHANGED exitStatus
  /\ UNCHANGED <<serverVars, argv, answer, FIX_MODE, AWS_ONLY, GCP_ONLY, TARGET_ENV,
                 TOTAL, CORRECT, INCORRECT, UNFIXABLE, cloud, vault, rn, ops, lines>>

\* An audit_* function up to its while loop: the listing command fails
\* (`|| return 0`), lists nothing (`return 0`), or gives the loop its lines.
ListResources ==
  /\ apc = "audit"
  /\ call <= Len(Plan)
  /\ \E listed \in BOOLEAN :
       /\ Plan[call] \notin DOMAIN cloud => ~listed
       /\ IF listed /\ cloud[Plan[call]] # <<>>
            THEN apc' = "loop" /\ lines' = cloud[Plan[call]] /\ UNCHANGED call
            ELSE call' = call + 1 /\ UNCHANGED <<apc, lines>>
  /\ UNCHANGED <<serverVars, argv, answer, FIX_MODE, AWS_ONLY, GCP_ONLY, TARGET_ENV,
                 TOTAL, CORRECT, INCORRECT, UNFIXABLE, cloud, vault, rn, ops, exitStatus>>

\* One pass of the while loop; a command failing under `set -e` ends the script
\* with that command's status, and the function returns after the last line.
Examine ==
  /\ apc = "loop"
  /\ lines # <<>>
  /\ \E getOk, createOk, deleteOk \in BOOLEAN :
       LET r == LoopBody(Counters, Plan[call], Head(lines), FIX_MODE,
                         getOk, createOk, deleteOk)
       IN /\ TOTAL' = r.TOTAL
          /\ CORRECT' = r.CORRECT
          /\ INCORRECT' = r.INCORRECT
          /\ UNFIXABLE' = r.UNFIXABLE
          /\ cloud' = r.cloud
          /\ vault' = r.vault
          /\ ops' = r.ops
          /\ IF r.status # 0
               THEN apc' = "exited" /\ exitStatus' = r.status /\ UNCHANGED <<call, lines>>
               ELSE /\ lines' = Tail(lines)
                    /\ UNCHANGED exitStatus
                    /\ IF Tail(lines) = <<>>
                         THEN apc' = "audit" /\ call' = call + 1
                         ELSE UNCHANGED <<apc, call>>
  /\ UNCHANGED <<serverVars, argv, answer, FIX_MODE, AWS_ONLY, GCP_ONLY, TARGET_ENV, rn>>

\* Lines 483-501: the summary and exit 0
Summary ==
  /\ apc = "audit"
  /\ call > Len(Plan)
  /\ apc' = "exited"
  /\ exitStatus' = 0
  /\ UNCHANGED <<serverVars, argv, answer, FIX_MODE, AWS_ONLY, GCP_ONLY, TARGET_ENV,
                 TOTAL, CORRECT, INCORRECT, UNFIXABLE, cloud, vault, rn, ops, call, lines>>

\* the command lines the script is run with
ArgLists ==
  {<<>>, <<"--fix">>, <<"--aws-only">>, <<"--gcp-only">>, <<"--env", "dev">>,
   <<"--env", "prod">>, <<"--aws-only", "--gcp-only">>, <<"--aws-only", "--env", "stag">>,
   <<"--gcp-only", "--env", "dev">>, <<"--fix", "--env", "dev">>,
   <<"--fix", "--gcp-only">>, <<"--env", "--fix">>, <<"--env">>, <<"--help">>,
   <<"--verbose">>}

FixGiven(args) == \E k \in DOMAIN args : args[k] = "--fix"

ConfirmAnswers == {"yes", "no", "eof"}

Scopes == {"dev", "stag", "prod"}

\* secret names found in dev: one that follows the convention and two that do not
SecretNames == {<<"monitoring", "api", "secret", "dev">>, <<"api", "dev">>,
                <<"dev", "api", "secret">>}

ClusterLists == {<<>>, << <<"monitoring", "web", "container", "dev">> >>, << <<"web">> >>}

\* the lists of distinct names, of MaxResources names at most, over a set of names
NameLists(names, n) ==
  {l \in UNION {[1..k -> names] : k \in 0..n} :
     \A a, b \in DOMAIN l : a # b => l[a] # l[b]}

\* what the listing commands return: the secrets of AWS dev and of the GCP dev
\* project, the ECS clusters of AWS dev, one database in AWS stag, nothing else
Cloud(awsSecrets, ecs, gcpSecrets) ==
  [k \in {Call(AwsFns[j], sc) : j \in DOMAIN AwsFns, sc \in Scopes}
         \cup {Call(GcpFns[j], sc) : j \in DOMAIN GcpFns, sc \in Scopes} |->
     IF k = Call("audit_aws_secrets", "dev") THEN awsSecrets
     ELSE IF k = Call("audit_aws_ecs", "dev") THEN ecs
     ELSE IF k = Call("audit_gcp_secrets", "dev") THEN gcpSecrets
     ELSE IF k = Call("audit_aws_rds", "stag")
       THEN << <<"monitoring", "main", "database", "stag">> >>
     ELSE <<>>]

NoCloud == Cloud(<<>>, <<>>, <<>>)

\* the secret stores: those the two secret listings read
SecretKeys == {Call("audit_aws_secrets", sc) : sc \in Scopes}
                \cup {Call("audit_gcp_secrets", sc) : sc \in Scopes}

\* the stores holding the listed secrets, each with the value held[name]
Vault(cl, held) ==
  [k \in SecretKeys |-> {Secret(cl[k][j], held[cl[k][j]]) : j \in DOMAIN cl[k]}]

\* the value of a secret in the runs of the whole script
Plain == [name \in SecretNames |-> <<"s">>]

\* no call of rename_aws_secret / rename_gcp_secret is under way
NoRename ==
  [fn |-> "none", key |-> Call("audit_aws_secrets", "dev"), old |-> <<>>, new |-> <<>>,
   secret_value |-> <<>>, original |-> <<>>, stage |-> "none",
   status |-> NoExit]

\* the script has not been started
AuditNotRun ==
  /\ argv = <<>>
  /\ answer = "eof"
  /\ FIX_MODE = "false"
  /\ AWS_ONLY = "false"
  /\ GCP_ONLY = "false"
  /\ TARGET_ENV = ""
  /\ TOTAL = 0
  /\ CORRECT = 0
  /\ INCORRECT = 0
  /\ UNFIXABLE = 0
  /\ cloud = NoCloud
  /\ vault = Vault(NoCloud, Plain)
  /\ rn = NoRename
  /\ ops = <<>>
  /\ apc = "idle"
  /\ call = 0
  /\ lines = <<>>
  /\ exitStatus = NoExit

---------------------------------------------------------------------------
(* The environment *)

\* the backing store's condition changes
StoreChange ==
  /\ \E st \in StoreStates \ {store} : store' = st
  /\ UNCHANGED <<auditVars, mainVars, pending, reqs, lastExchange>>

---------------------------------------------------------------------------

Env(url, key, port) == [CLICKHOUSE_URL |-> url, MCP_API_KEY |-> key, MCP_PORT |-> port]

\* environments the process is started in
Envs ==
  {Env(<<"h", "t", "t", "p", ":", "/", "/", "c", "h", ":", "8", "1", "2", "3">>,
       <<"k", "e", "y">>, <<"4", "0", "0", "0">>),
   Env(Undefined, <<"k", "e", "y">>, Undefined),
   Env(Undefined, Undefined, Undefined),
   Env(Undefined, <<>>, Undefined),
   Env(<<"n", "o", "t", "-", "a", "-", "u", "r", "l">>, <<"k", "e", "y">>, Undefined)}

Init ==
  /\ env \in Envs
  /\ config = NoConfig
  /\ client = FALSE
  /\ pc = "loadConfig"
  /\ i = 0
  /\ healthy = FALSE
  /\ probeCalls = 0
  /\ probeResults = <<>>
  /\ delays = 0
  /\ elapsed = 0
  /\ log = <<>>
  /\ exitCode = NoExit
  /\ server = {}
  /\ transport = "none"
  /\ store \in StoreStates
  /\ pending = {}
  /\ reqs = [s \in Slots |-> Idle]
  /\ lastExchange = NoExchange
  /\ AuditNotRun

Next ==
  \/ LoadConfig
  \/ CreateClient
  \/ CreateClientThrows
  \/ GateProbeResolve
  \/ GateDelayElapsed
  \/ BindListening
  \/ BindFails
  \/ \E rq \in Requests : ConnectionRefused(rq)
  \/ \E rq \in Requests : HandleRequest(rq)
  \/ \E s \in Slots : Dispatch(s)
  \/ \E s \in Slots : ToolResolve(s)
  \/ StoreChange

Spec == Init /\ [][Next]_vars

---------------------------------------------------------------------------
(* The startup gate *)

\* the retry loop's first K probes were K-1 times false, then true
FirstTrueAt(K) ==
  /\ K \in 1..Len(probeResults)
  /\ probeResults[K]
  /\ \A j \in 1..(K - 1) : ~probeResults[j]

\* every attempt of the retry loop came back false
AllAttemptsFalse ==
  /\ Len(probeResults) >= maxAttempts
  /\ \A j \in 1..maxAttempts : ~probeResults[j]

\* C1: when the probe is false on attempts 1..K-1 and true on attempt K, the
\* retry loop has made exactly K probe calls, has been suspended for delayMs
\* exactly K-1 times, never probes again, and main() has gone on to create the
\* server and start the HTTP listener.
C1_GateSucceedsAtK ==
  \A K \in 1..maxAttempts :
    FirstTrueAt(K) =>
      /\ Len(probeResults) = K
      /\ probeCalls = K
      /\ delays = K - 1
      /\ elapsed = (K - 1) * delayMs
      /\ Gate \notin pending
      /\ server = createMcpServer
      /\ transport \in {"binding", "listening", "failed"}
      /\ pc \in {"binding", "serving", "exited"}
      /\ pc = "exited" => transport = "failed"

C1_Witness ==
  /\ FirstTrueAt(maxAttempts)
  /\ transport = "listening"

\* C2: when the probe is false on every attempt, the retry loop makes exactly
\* maxAttempts probe calls with one delay between each two consecutive calls
\* (maxAttempts-1 delays, none after the last call) and then reports failure.
C2_GateExhausts ==
  /\ (pc = "probe" /\ \A j \in 1..Len(probeResults) : ~probeResults[j]) =>
       /\ probeCalls = Len(probeResults) + 1
       /\ delays = Len(probeResults)
       /\ probeCalls <= maxAttempts
  /\ pc = "delay" =>
       /\ probeCalls = Len(probeResults)
       /\ delays = probeCalls - 1
       /\ probeCalls < maxAttempts
  /\ AllAttemptsFalse =>
       /\ Len(probeResults) = maxAttempts
       /\ probeCalls = maxAttempts
       /\ delays = maxAttempts - 1
       /\ elapsed = (maxAttempts - 1) * delayMs
       /\ pc = "exited"
       /\ log[Len(log)] = Line("error", "ClickHouse not reachable after {} attempts, exiting",
                               <<maxAttempts>>)

C2_Witness ==
  /\ AllAttemptsFalse
  /\ pc = "exited"
  /\ delays = maxAttempts - 1

\* C3: the server is created and the listener started only after some probe
\* of the retry loop returned true; when the loop exhausts its attempts the
\* process has exited with status 1 and no listener was ever bound.
C3_ServingGatedOnProbe ==
  /\ (server # {} \/ transport # "none" \/ pc \in {"binding", "serving"}) =>
       \E k \in 1..Len(probeResults) : probeResults[k]
  /\ AllAttemptsFalse =>
       /\ pc = "exited"
       /\ exitCode = 1
       /\ server = {}
       /\ transport = "none"

C3_Witness ==
  /\ transport = "listening"
  /\ FirstTrueAt(2)
  /\ store = "down"

---------------------------------------------------------------------------
(* The probe and the ping tool *)

\* the retry loop's probe settles in this step
GateProbeSettles == Gate \in pending /\ Gate \notin pending'

\* the probe of the request in slot s settles in this step
ToolProbeSettles(s) == Req(s) \in pending /\ Req(s) \notin pending'

\* C4: checkClickHouseHealth never propagates an error: whatever client.ping()
\* does (resolves with success, resolves without, rejects), the caller gets a
\* boolean back, and it is true only when client.ping() resolved with success.
C4_ProbeNeverThrows ==
  [][ /\ GateProbeSettles =>
           /\ probeResults' = Append(probeResults, store = "up")
           /\ healthy' = (store = "up")
      /\ \A s \in Slots :
           ToolProbeSettles(s) =>
             /\ lastExchange'.result.status # "none"
             /\ lastExchange'.result.clickhouse = (store = "up") ]_vars

C4_Witness ==
  /\ lastExchange.outcome = "reject"
  /\ lastExchange.result.clickhouse = FALSE
  /\ lastExchange.status = 200
  /\ Len(probeResults) >= 2

\* C5: every result of ping() has status "ok" exactly when its clickhouse flag
\* is true; when client.ping() reports failure or rejects, ping still resolves,
\* with status "error" and the flag false.
C5_StatusIffReachable ==
  lastExchange.dispatched =>
    /\ lastExchange.result.status \in {"ok", "error"}
    /\ lastExchange.result.status = "ok" <=> lastExchange.result.clickhouse
    /\ lastExchange.outcome = "success" => lastExchange.result.clickhouse
    /\ lastExchange.outcome \in {"failure", "reject"} =>
         /\ lastExchange.result.status = "error"
         /\ ~lastExchange.result.clickhouse

C5_Witness ==
  /\ lastExchange.dispatched
  /\ lastExchange.outcome = "failure"
  /\ lastExchange.result.status = "error"

---------------------------------------------------------------------------
(* The HTTP transport *)

\* the last exchange was answered by the listener (not a refused connection)
Answered == lastExchange.status > 0

\* a request is answered in this step
Answers == lastExchange' # lastExchange /\ lastExchange'.status > 0

Expected == Bearer \o config.mcpApiKey

\* the value of member k of a serialized object
Field(text, k) == text[CHOOSE j \in 1..Len(text) : text[j][1] = k][2]

\* C6: a GET /health request without an Authorization header that reaches the
\* listener is answered 200 with a body whose status is "ok", whatever the
\* backing store's condition, and no client.ping() is issued for it.
C6_HealthUnauthenticated ==
  /\ [](( /\ Answered
          /\ lastExchange.req.method = "GET"
          /\ lastExchange.req.path = "/health"
          /\ lastExchange.req.authorization = Undefined ) =>
            /\ lastExchange.status = 200
            /\ lastExchange.json = << <<"status", "ok">> >>
            /\ lastExchange.probes = 0)
  /\ [][(Answers /\ lastExchange'.req.path = "/health") => pending' = pending]_vars

C6_Witness ==
  /\ lastExchange.req = Request("GET", "/health", Undefined, "none")
  /\ lastExchange.status = 200
  /\ store = "down"

\* C7: a POST /mcp request without an Authorization header is answered 401,
\* whatever its body, and is never admitted to the protocol layer.
C7_MissingHeader401 ==
  /\ ( /\ Answered
       /\ lastExchange.req.path = "/mcp"
       /\ lastExchange.req.authorization = Undefined ) => lastExchange.status = 401
  /\ \A s \in Slots : reqs[s].state # "idle" => reqs[s].req.authorization # Undefined

C7_Witness ==
  /\ lastExchange.req = Request("POST", "/mcp", Undefined, "ping")
  /\ lastExchange.status = 401

\* C8: a POST /mcp request whose Authorization header is not exactly "Bearer "
\* followed by the configured secret is answered 401: a token that is a
\* proper prefix of the secret, extends it, or differs in letter case only is
\* rejected like any other.
C8_WrongToken401 ==
  /\ ( /\ Answered
       /\ lastExchange.req.path = "/mcp"
       /\ lastExchange.req.authorization # Expected ) => lastExchange.status = 401
  /\ \A s \in Slots : reqs[s].state # "idle" => reqs[s].req.authorization = Expected

C8_Witness ==
  /\ lastExchange.req = Request("POST", "/mcp", Bearer \o <<"K", "E", "Y">>, "ping")
  /\ config.mcpApiKey = <<"k", "e", "y">>
  /\ lastExchange.status = 401

\* C9: on the protocol path the tool registry is invoked, and client.ping() is
\* issued, only for a request whose bearer token was compared to the secret
\* and found equal; answering 401 dispatches nothing and issues no probe.
C9_AuthBeforeDispatch ==
  /\ [](lastExchange.status = 401 => (~lastExchange.dispatched /\ lastExchange.probes = 0))
  /\ [][ /\ \A s \in Slots :
              /\ (reqs'[s].state = "authorized" /\ reqs[s].state # "authorized") =>
                   reqs'[s].req.authorization = Expected
              /\ (reqs'[s].state = "probing" /\ reqs[s].state # "probing") =>
                   /\ reqs[s].state = "authorized"
                   /\ reqs[s].req.authorization = Expected
              /\ (Req(s) \in pending' /\ Req(s) \notin pending) =>
                   /\ reqs[s].state = "authorized"
                   /\ reqs[s].req.authorization = Expected
         /\ (Answers /\ lastExchange'.status = 401) =>
              /\ pending' = pending
              /\ reqs' = reqs ]_vars

C9_Witness ==
  /\ \E s \in Slots : reqs[s].state = "probing" /\ Req(s) \in pending
  /\ lastExchange.status = 401
  /\ lastExchange.req.authorization = Bearer \o <<"k", "e", "y", "s">>

\* C10: a POST /mcp request with the correct bearer token that calls "ping"
\* reaches the tool registered by createMcpServer, and its response carries the
\* PingResult (status, clickhouse flag, timestamp) of the probe made for it.
C10_PingDispatched ==
  /\ [](( /\ Answered
          /\ lastExchange.req = Request("POST", "/mcp", Expected, "ping") ) =>
            /\ lastExchange.status = 200
            /\ lastExchange.dispatched
            /\ lastExchange.probes = 1
            /\ "ping" \in server
            /\ Len(lastExchange.content) = 1
            /\ lastExchange.content[1].type = "text"
            /\ LET text == lastExchange.content[1].text
               IN /\ [j \in 1..Len(text) |-> text[j][1]] = <<"status", "clickhouse", "timestamp">>
                  /\ Field(text, "status") =
                       (IF lastExchange.outcome = "success" THEN "ok" ELSE "error")
                  /\ Field(text, "clickhouse") =
                       (IF lastExchange.outcome = "success" THEN "true" ELSE "false"))
  /\ [][\A s \in Slots :
          ToolProbeSettles(s) =>
            /\ lastExchange'.req = reqs[s].req
            /\ Field(lastExchange'.content[1].text, "clickhouse") =
                 (IF store = "up" THEN "true" ELSE "false")
            /\ Field(lastExchange'.content[1].text, "timestamp") = ToString(elapsed)]_vars

C10_Witness ==
  /\ lastExchange.req = Request("POST", "/mcp", Expected, "ping")
  /\ lastExchange.status = 200
  /\ Field(lastExchange.content[1].text, "status") = "ok"
  /\ Field(lastExchange.content[1].text, "timestamp") = ToString(2 * delayMs)

---------------------------------------------------------------------------
(* Configuration loading on its own: loadConfig over a range of environments *)

ClickHouseUrl == <<"h", "t", "t", "p", ":", "/", "/", "c", "h", ":", "8", "1", "2", "3">>

UrlValues == {Undefined, <<>>, ClickHouseUrl,
              <<"n", "o", "t", "-", "a", "-", "u", "r", "l">>, <<"/", "d", "b">>}
KeyValues == {Undefined, <<>>, <<"k", "e", "y">>, <<"k">>}
PortValues == {Undefined, <<>>, <<"4", "0", "0", "0">>, <<"0">>, <<"-", "1">>,
               <<"a", "b", "c">>, <<"4", ".", "5">>}

InitConfig ==
  /\ env \in {Env(u, k, p) : u \in UrlValues, k \in KeyValues, p \in PortValues}
  /\ config = NoConfig
  /\ client = FALSE
  /\ pc = "loadConfig"
  /\ i = 0
  /\ healthy = FALSE
  /\ probeCalls = 0
  /\ probeResults = <<>>
  /\ delays = 0
  /\ elapsed = 0
  /\ log = <<>>
  /\ exitCode = NoExit
  /\ server = {}
  /\ transport = "none"
  /\ store \in StoreStates
  /\ pending = {}
  /\ reqs = [s \in Slots |-> Idle]
  /\ lastExchange = NoExchange
  /\ AuditNotRun

NextConfig == LoadConfig

SpecConfig == InitConfig /\ [][NextConfig]_vars

\* the secret is a non-empty string
KeySupplied == env.MCP_API_KEY \notin {Undefined, <<>>}

\* the backing-store URL is not supplied, or is one that parses as an absolute URL
UrlAcceptable == env.CLICKHOUSE_URL \in {Undefined, <<>>, ClickHouseUrl}

\* the port is not supplied, or is the text of a positive integer
PortAcceptable == env.MCP_PORT \in {Undefined, <<>>, <<"4", "0", "0", "0">>}

Loaded == pc = "createClient"

\* C11 as stated: loadConfig succeeds if and only if the secret is a non-empty
\* string and the backing-store URL, when supplied, parses as an absolute URL.
C11_AsStated ==
  pc # "loadConfig" => (Loaded <=> (KeySupplied /\ UrlAcceptable))

\* C11, amended: loadConfig succeeds if and only if the secret is a non-empty
\* string, the backing-store URL, when supplied, parses as an absolute URL, and
\* the port, when supplied, is the text of a positive integer; a missing or
\* empty secret always makes it throw, and no Config is produced when it throws.
C11_LoadConfigIff ==
  pc # "loadConfig" =>
    /\ Loaded <=> (KeySupplied /\ UrlAcceptable /\ PortAcceptable)
    /\ ~KeySupplied => ~Loaded
    /\ ~Loaded => (config = NoConfig /\ pc = "exited")
    /\ Loaded =>
         /\ config.mcpApiKey = env.MCP_API_KEY
         /\ config.clickhouseUrl =
              (IF env.CLICKHOUSE_URL = ClickHouseUrl THEN ClickHouseUrl ELSE DefaultUrl)
         /\ config.mcpPort = (IF env.MCP_PORT = <<"4", "0", "0", "0">> THEN 4000 ELSE DefaultPort)

C11_Witness ==
  /\ Loaded
  /\ env.CLICKHOUSE_URL = <<>>
  /\ config.clickhouseUrl = DefaultUrl
  /\ config.mcpPort = 4000

---------------------------------------------------------------------------
(* Startup failures *)

ConfigInvalid == ~(KeySupplied /\ UrlAcceptable /\ PortAcceptable)

\* C12: when loadConfig fails, main() ends before createClickHouseClient, the
\* retry loop and startHttpServer are reached: no client is constructed, no
\* probe is ever issued, no server is created and no listener is bound.
C12_NoContactOnConfigFailure ==
  (ConfigInvalid /\ pc # "loadConfig") =>
    /\ pc = "exited"
    /\ config = NoConfig
    /\ ~client
    /\ probeCalls = 0
    /\ probeResults = <<>>
    /\ pending = {}
    /\ server = {}
    /\ transport = "none"
    /\ ~Answered

C12_Witness ==
  /\ ConfigInvalid
  /\ pc = "exited"
  /\ ~client
  /\ store = "up"
  /\ lastExchange.status = 0

\* the client was never constructed although the configuration loaded
ClientConstructionFailed == pc = "exited" /\ config # NoConfig /\ ~client

\* C13: an error that escapes main() (loadConfig throwing, createClickHouseClient
\* throwing, startHttpServer rejecting after a successful gate) ends the process
\* with exit status 1; the process never ends with status 0.
C13_FatalExitsNonZero ==
  /\ exitCode \in {NoExit, 1}
  /\ pc = "exited" <=> exitCode = 1
  /\ (ConfigInvalid /\ pc # "loadConfig") => exitCode = 1
  /\ ClientConstructionFailed => exitCode = 1
  /\ transport = "failed" =>
       /\ exitCode = 1
       /\ healthy
       /\ log[Len(log)] = Line("error", "Fatal error:", <<>>)

C13_Witness ==
  /\ transport = "failed"
  /\ exitCode = 1
  /\ probeCalls = 2

---------------------------------------------------------------------------
(* The liveness path *)

HealthRequest == Request("GET", "/health", Undefined, "none")

GateSuspended == pc \in {"probe", "delay"}

\* C14 as stated: a GET /health request made while the retry loop is suspended
\* in a probe or in its delay is served with 200.
C14_AsStated ==
  [][ ( /\ GateSuspended
        /\ lastExchange' # lastExchange
        /\ lastExchange'.req.path = "/health" ) => lastExchange'.status = 200 ]_vars

\* C14, amended: the listener is bound only after the retry loop has succeeded,
\* so while the loop is suspended no listener answers; from the moment the
\* listener is bound, a GET /health request is always served with 200, at once,
\* whatever client.ping() calls of in-flight requests are outstanding.
C14_HealthOnceListening ==
  /\ [](GateSuspended => transport = "none")
  /\ [](transport = "listening" => ENABLED HandleRequest(HealthRequest))
  /\ [][ ( /\ transport = "listening"
           /\ lastExchange' # lastExchange
           /\ lastExchange'.req.path = "/health" ) =>
             /\ lastExchange'.status = 200
             /\ pending' = pending
             /\ reqs' = reqs ]_vars

C14_Witness ==
  /\ transport = "listening"
  /\ \A s \in Slots : reqs[s].state = "probing" /\ Req(s) \in pending
  /\ lastExchange.req = HealthRequest
  /\ lastExchange.status = 200
  /\ store = "down"

---------------------------------------------------------------------------
(* The exhaustion message *)

Names(line, x) == \E k \in DOMAIN line.args : line.args[k] = x

\* C15 as stated: on exhaustion the failure message names the attempt count and
\* the retry interval.
C15_AsStated ==
  (AllAttemptsFalse /\ pc = "exited") =>
    /\ log[Len(log)].stream = "error"
    /\ Names(log[Len(log)], maxAttempts)
    /\ Names(log[Len(log)], delayMs)

\* C15, amended: on exhaustion the failure message, written to the error stream
\* as the last line before process.exit(1), names the attempt count only; the
\* retry interval is named by the "not ready" line of each earlier attempt.
C15_ExhaustionMessage ==
  /\ []( (AllAttemptsFalse /\ pc = "exited") =>
           /\ Len(log) = maxAttempts
           /\ log[Len(log)] = Line("error", "ClickHouse not reachable after {} attempts, exiting",
                                   <<maxAttempts>>)
           /\ ~Names(log[Len(log)], delayMs)
           /\ \A k \in 1..(maxAttempts - 1) :
                /\ log[k].stream = "log"
                /\ log[k].args = <<k, maxAttempts, delayMs>>
           /\ exitCode = 1 )
  /\ [][pc = "exited" => log' = log]_vars
  /\ [][(exitCode = NoExit /\ exitCode' = 1) =>
          (Len(log') = Len(log) + 1 /\ log'[Len(log')].stream = "error")]_vars

C15_Witness ==
  /\ AllAttemptsFalse
  /\ exitCode = 1
  /\ Len(log) = maxAttempts
  /\ Names(log[Len(log)], maxAttempts)

---------------------------------------------------------------------------
(* The retry loop's schedule *)

\* a new call of checkClickHouseHealth is issued by the retry loop in this step
GateProbeIssued == probeCalls' = probeCalls + 1

\* C17: the retry loop's attempts are strictly sequential: at most one probe
\* call is outstanding, call N+1 is issued only once call N has settled and the
\* delay after it has elapsed, and every delay is the same delayMs.
C17_AttemptsSequential ==
  /\ []( /\ Gate \in pending <=> pc = "probe"
         /\ probeCalls - Len(probeResults) = (IF pc = "probe" THEN 1 ELSE 0)
         /\ pc = "probe" => delays = Len(probeResults)
         /\ pc = "delay" => delays = Len(probeResults) - 1
         /\ elapsed = delays * delayMs )
  /\ [][ (GateProbeIssued /\ probeCalls >= 1) =>
           /\ pc = "delay"
           /\ Gate \notin pending
           /\ Len(probeResults) = probeCalls
           /\ delays' = delays + 1
           /\ elapsed' = elapsed + delayMs ]_vars
  /\ [][ elapsed' # elapsed => (elapsed' = elapsed + delayMs /\ pc = "delay") ]_vars

C17_Witness ==
  /\ pc = "probe"
  /\ probeCalls = 3
  /\ delays = 2
  /\ elapsed = 2 * delayMs
  /\ Gate \in pending

\* every probe call settles and every delay elapses
FairSpec == Spec /\ WF_vars(GateProbeResolve) /\ WF_vars(GateDelayElapsed)

GateResolved == pc \in {"binding", "serving", "exited"}

\* C18: provided each probe call settles and each delay elapses, the retry loop
\* always ends, in success or in exhaustion, after at most maxAttempts probe
\* calls: it never retries indefinitely.
C18_GateTerminates ==
  /\ [](probeCalls <= maxAttempts /\ i <= maxAttempts + 1)
  /\ (pc \in {"probe", "delay"}) ~> GateResolved
  /\ [](GateResolved => (healthy \/ AllAttemptsFalse \/ exitCode = 1))

C18_Witness ==
  /\ pc = "binding"
  /\ probeCalls = maxAttempts
  /\ delays = maxAttempts - 1
  /\ healthy

---------------------------------------------------------------------------
(* Pings after startup *)

\* the request in slot s is handed to the ping tool in this step
PingIssued(s) == reqs[s].state = "authorized" /\ reqs'[s].state = "probing"

\* C19: every ping issues a client.ping() of its own and reports what that one
\* settled to: a successful retry loop or an earlier ping answered "ok" never
\* makes a later ping answer "ok" while the store is not reachable.
C19_PingProbesAfresh ==
  /\ [][ \A s \in Slots :
           /\ PingIssued(s) => (Req(s) \notin pending /\ Req(s) \in pending')
           /\ ToolProbeSettles(s) =>
                /\ reqs[s].state = "probing"
                /\ lastExchange'.probes = 1
                /\ lastExchange'.result.status = (IF store = "up" THEN "ok" ELSE "error")
                /\ lastExchange'.result.clickhouse = (store = "up") ]_vars
  /\ [](lastExchange.dispatched => healthy)

C19_Witness ==
  /\ healthy
  /\ FirstTrueAt(1)
  /\ lastExchange.dispatched
  /\ lastExchange.result.status = "error"
  /\ \E s \in Slots : reqs[s].state = "probing"

\* C20: pings in flight together are independent: when the client.ping() of one
\* settles while another's is outstanding, the one answered carries its own
\* probe's outcome, and the other stays in flight with its probe outstanding;
\* nothing of main()'s state is written.
C20_PingsIndependent ==
  [][ \A s \in Slots :
        (ToolProbeSettles(s) /\ \E t \in Slots \ {s} : reqs[t].state = "probing") =>
          /\ lastExchange'.req = reqs[s].req
          /\ lastExchange'.result.clickhouse = (store = "up")
          /\ \A t \in Slots \ {s} :
               /\ reqs'[t] = reqs[t]
               /\ Req(t) \in pending <=> Req(t) \in pending'
          /\ UNCHANGED mainVars ]_vars

C20_Witness ==
  /\ \E s \in Slots : reqs[s].state = "probing" /\ Req(s) \in pending
  /\ lastExchange.dispatched
  /\ lastExchange.result.status = "ok"
  /\ store = "down"

---------------------------------------------------------------------------
(* The audit script on its own *)

\* the server is not part of a run of the script
ServerNotRun ==
  /\ env = Env(Undefined, Undefined, Undefined)
  /\ config = NoConfig
  /\ client = FALSE
  /\ pc = "notStarted"
  /\ i = 0
  /\ healthy = FALSE
  /\ probeCalls = 0
  /\ probeResults = <<>>
  /\ delays = 0
  /\ elapsed = 0
  /\ log = <<>>
  /\ exitCode = NoExit
  /\ server = {}
  /\ transport = "none"
  /\ store = "up"
  /\ pending = {}
  /\ reqs = [s \in Slots |-> Idle]
  /\ lastExchange = NoExchange

\* Lines 42-45 and 151-154: the flags false, the counters 0
InitAudit ==
  /\ ServerNotRun
  /\ argv \in ArgLists
  /\ answer \in (IF FixGiven(argv) THEN ConfirmAnswers ELSE {"eof"})
  /\ FIX_MODE = "false"
  /\ AWS_ONLY = "false"
  /\ GCP_ONLY = "false"
  /\ TARGET_ENV = ""
  /\ TOTAL = 0
  /\ CORRECT = 0
  /\ INCORRECT = 0
  /\ UNFIXABLE = 0
  /\ cloud \in {Cloud(a, e, g) : a \in NameLists(SecretNames, MaxResources),
                                 e \in ClusterLists,
                                 g \in NameLists(SecretNames, MaxResources)}
  /\ vault = Vault(cloud, Plain)
  /\ rn = NoRename
  /\ ops = <<>>
  /\ apc = "parse"
  /\ call = 0
  /\ lines = <<>>
  /\ exitStatus = NoExit

NextAudit ==
  \/ ParseArguments
  \/ AskConfirmation
  \/ ListResources
  \/ Examine
  \/ Summary

SpecAudit == InitAudit /\ [][NextAudit]_vars

\* the values a counter is tried at: zero and not zero
CounterValues == {0, 1}

\* C16: run without --fix the script is audit-only: whatever the resources and
\* whatever --aws-only, --gcp-only and --env say, it issues no create and no
\* delete and the cloud stays as it was; and, whatever the counters hold, the
\* loop body reaches rename_aws_secret / rename_gcp_secret only in fix mode.
C16_AuditOnly ==
  /\ [](~FixGiven(argv) => (FIX_MODE = "false" /\ ops = <<>>))
  /\ [][~FixGiven(argv) => (cloud' = cloud /\ vault' = vault /\ ops' = ops)]_vars
  /\ []((apc = "loop" /\ FIX_MODE = "false") =>
         \A t, c, n, u \in CounterValues, getOk, createOk, deleteOk \in BOOLEAN :
           LET r == LoopBody([Counters EXCEPT !.TOTAL = t, !.CORRECT = c,
                                              !.INCORRECT = n, !.UNFIXABLE = u],
                             Plan[call], Head(lines), FIX_MODE, getOk, createOk, deleteOk)
           IN r.ops = ops /\ r.cloud = cloud /\ r.vault = vault)

C16_Witness ==
  /\ apc = "exited"
  /\ ~FixGiven(argv)
  /\ GCP_ONLY = "true"
  /\ TARGET_ENV = "dev"
  /\ Plan[call].fn = "audit_gcp_secrets"
  /\ ~check_name(Head(lines), "secret", "dev")
  /\ TOTAL = 1
  /\ ops = <<>>

---------------------------------------------------------------------------
(* Progress reporting of the retry loop *)

RetryLine(N) ==
  Line("log", "ClickHouse not ready (attempt {}/{}), retrying in {}ms...",
       <<N, maxAttempts, delayMs>>)

HealthyLine(N) == Line("log", "ClickHouse healthy after {} attempt(s)", <<N>>)

\* attempt N of the retry loop has settled, to false
Failed(N) == N \in 1..Len(probeResults) /\ ~probeResults[N]

Logged(line) == \E k \in DOMAIN log : log[k] = line

\* the k-th line written is `line`
LoggedAt(k, line) == k \in DOMAIN log /\ log[k] = line

\* C21 as stated: a retry-progress message is emitted for every failed
\* attempt N.
C21_AsStated ==
  \A N \in 1..maxAttempts : Failed(N) => Logged(RetryLine(N))

\* C21, amended: a retry-progress message carrying N, the maximum and the delay
\* is emitted for every failed attempt N but the last (N < maxAttempts), in
\* increasing order of N and before the delay that follows the attempt; the
\* failed last attempt gets no progress message and no delay, only the final
\* failure message; on success the attempt count reported is the number of
\* probe calls made.
C21_ProgressReported ==
  /\ []( \A N \in 1..(maxAttempts - 1) : Failed(N) => LoggedAt(N, RetryLine(N)) )
  /\ []( pc = "delay" =>
           /\ Len(log) = i
           /\ LoggedAt(i, RetryLine(i))
           /\ delays = i - 1 )
  /\ [][ delays' = delays + 1 => LoggedAt(Len(log), RetryLine(delays + 1)) ]_vars
  /\ []( ~Logged(RetryLine(maxAttempts)) )
  /\ []( healthy =>
           /\ Len(probeResults) = probeCalls
           /\ LoggedAt(probeCalls, HealthyLine(probeCalls)) )
  /\ []( AllAttemptsFalse =>
           LoggedAt(maxAttempts,
                    Line("error", "ClickHouse not reachable after {} attempts, exiting",
                         <<maxAttempts>>)) )

C21_Witness ==
  /\ pc = "delay"
  /\ i = 2
  /\ Len(log) = 2
  /\ log[1] = RetryLine(1)
  /\ log[2] = RetryLine(2)
  /\ delays = 1

---------------------------------------------------------------------------
(* Renaming a secret: rename_aws_secret and rename_gcp_secret, step by step *)

RenameFns == {"rename_aws_secret", "rename_gcp_secret"}

\* the store a rename function works on, in dev
StoreOf(fn) ==
  IF fn = "rename_aws_secret" THEN Call("audit_aws_secrets", "dev")
  ELSE Call("audit_gcp_secrets", "dev")

\* secret values: plain, ending in one or two newlines, with a newline inside,
\* and one that reads as an option of echo
Values == {<<"s">>, <<"s", "\n">>, <<"s", "\n", "\n">>, <<"s", "\n", "k">>, <<"-", "n">>}

\* the value of a secret that already has the name the renamed one is to get
Other(name) == <<"o">>

\* the names audit_*_secrets hands to the rename function: a listed secret that
\* fails check_name and has a logical name
Misnamed == {n \in SecretNames : /\ ~check_name(n, "secret", "dev")
                                 /\ extract_logical_name(n, "secret", "dev") # <<>>}

\* Lines 202-210, 375-381: secret_value=$(...) || return 1
RenameRead ==
  /\ rn.stage = "read"
  /\ \E getOk \in BOOLEAN :
       LET r == ReadSecret(Counters, rn.key, rn.old, getOk)
       IN rn' = IF r.ok THEN [rn EXCEPT !.secret_value = r.value, !.stage = "create"]
                ELSE [rn EXCEPT !.stage = "returned", !.status = 1]
  /\ UNCHANGED <<serverVars, argv, answer, FIX_MODE, AWS_ONLY, GCP_ONLY, TARGET_ENV,
                 TOTAL, CORRECT, INCORRECT, UNFIXABLE, cloud, vault, ops, apc, call,
                 lines, exitStatus>>

\* Lines 213-220, 384-390: the new secret is created with the value read, || return 1
RenameCreate ==
  /\ rn.stage = "create"
  /\ \E createOk \in BOOLEAN :
       LET c == CreateSecret(Counters, rn.key, rn.old, rn.new,
                             Passed(rn.fn, rn.secret_value), createOk)
       IN /\ cloud' = c.cloud
          /\ vault' = c.vault
          /\ ops' = c.ops
          /\ rn' = IF c.status = 0 THEN [rn EXCEPT !.stage = "delete"]
                   ELSE [rn EXCEPT !.stage = "returned", !.status = 1]
  /\ UNCHANGED <<serverVars, argv, answer, FIX_MODE, AWS_ONLY, GCP_ONLY, TARGET_ENV,
                 TOTAL, CORRECT, INCORRECT, UNFIXABLE, apc, call, lines, exitStatus>>

\* Lines 223-230, 393-399: the old secret is deleted, || a warning; return 0
RenameDelete ==
  /\ rn.stage = "delete"
  /\ \E deleteOk \in BOOLEAN :
       LET c == DeleteSecret(Counters, rn.key, rn.old, deleteOk)
       IN /\ cloud' = c.cloud
          /\ vault' = c.vault
          /\ ops' = c.ops
          /\ rn' = [rn EXCEPT !.stage = "returned", !.status = c.status]
  /\ UNCHANGED <<serverVars, argv, answer, FIX_MODE, AWS_ONLY, GCP_ONLY, TARGET_ENV,
                 TOTAL, CORRECT, INCORRECT, UNFIXABLE, apc, call, lines, exitStatus>>

\* a rename function is called as audit_*_secrets calls it in fix mode: on a
\* misnamed secret of the store, with the name the convention expects; another
\* secret may have that name already
InitRename ==
  /\ ServerNotRun
  /\ argv = <<"--fix">>
  /\ answer = "yes"
  /\ FIX_MODE = "true"
  /\ AWS_ONLY = "false"
  /\ GCP_ONLY = "false"
  /\ TARGET_ENV = ""
  /\ TOTAL = 1
  /\ CORRECT = 0
  /\ INCORRECT = 1
  /\ UNFIXABLE = 0
  /\ \E fn \in RenameFns, old \in Misnamed, value \in Values, taken \in BOOLEAN :
       LET new == expected_name(extract_logical_name(old, "secret", "dev"), "secret", "dev")
           names == IF taken THEN <<old, new>> ELSE <<old>>
           held == [n \in {old, new} |-> IF n = old THEN value ELSE Other(n)]
       IN /\ cloud = IF fn = "rename_aws_secret" THEN Cloud(names, <<>>, <<>>)
                     ELSE Cloud(<<>>, <<>>, names)
          /\ vault = Vault(cloud, held)
          /\ rn = [fn |-> fn, key |-> StoreOf(fn), old |-> old, new |-> new,
                   secret_value |-> <<>>, original |-> value, stage |-> "read",
                   status |-> NoExit]
  /\ ops = <<>>
  /\ apc = "loop"
  /\ call = 1
  /\ lines = <<>>
  /\ exitStatus = NoExit

NextRename ==
  \/ RenameRead
  \/ RenameCreate
  \/ RenameDelete

SpecRename == InitRename /\ [][NextRename]_vars

\* the store holds a secret `name` with the value the old secret had at the call
HoldsOriginal(name) == Secret(name, rn.original) \in vault[rn.key]

Deleted(name) == \E k \in DOMAIN ops : ops[k].op = "delete" /\ ops[k].name = name /\ ops[k].ok

C22_DeleteAfterCreate ==
  /\ rn.stage \in {"read", "create"} => HoldsOriginal(rn.old)
  /\ (rn.stage = "returned" /\ rn.status = 1) => (HoldsOriginal(rn.old) /\ ~Deleted(rn.old))
  /\ Deleted(rn.old) =>
       \E k \in DOMAIN ops : /\ ops[k].op = "create" /\ ops[k].name = rn.new /\ ops[k].ok
                             /\ \A j \in DOMAIN ops : ops[j].op = "delete" => j > k
  /\ \A k \in DOMAIN ops : (ops[k].op = "create" /\ ops[k].ok) =>
       Secret(rn.new, Passed(rn.fn, CommandSubstitution(rn.original))) \in vault[rn.key]

---------------------------------------------------------------------------
(* The audit's counters and its summary *)

\* the script ended inside an audit_* function's loop, its summary not printed
ExitedInLoop == apc = "exited" /\ call \in 1..Len(Plan) /\ lines # <<>>

\* the script printed its summary and ended with exit 0
SummaryPrinted == apc = "exited" /\ call > Len(Plan) /\ exitStatus = 0

\* C23 as stated: once a listing returned resources the script runs to its
\* summary: it does not end inside a loop, every resource examined has
\* incremented TOTAL and exactly one of CORRECT, INCORRECT and UNFIXABLE, and
\* the script ends with the summary and status 0.
C23_AsStated ==
  /\ ~ExitedInLoop
  /\ TOTAL = CORRECT + INCORRECT + UNFIXABLE
  /\ (apc = "exited" /\ call >= 1) => SummaryPrinted

\* C23, what the code does: the first resource examined ends the script, as
\* ((TOTAL++)) with TOTAL = 0 has status 1 under `set -e`; the summary is
\* printed only by runs in which no listing returned a resource.
C23_ExitsAtFirstResource ==
  /\ apc = "loop" => (TOTAL = 0 /\ lines = cloud[Plan[call]])
  /\ ExitedInLoop => /\ exitStatus = 1
                     /\ TOTAL = 1
                     /\ CORRECT + INCORRECT + UNFIXABLE = 0
                     /\ lines = cloud[Plan[call]]
  /\ SummaryPrinted => TOTAL = 0

\* the script ended with status 1 on the first of two listed resources, TOTAL
\* 1 and the other counters 0
C23_Witness ==
  /\ ExitedInLoop
  /\ exitStatus = 1
  /\ Len(lines) = 2
  /\ TOTAL = 1
  /\ CORRECT = 0 /\ INCORRECT = 0 /\ UNFIXABLE = 0

====
